---- MODULE Spec2Model ----
(***************************************************************************)
(* Display power / render state controller of ZSWatch                      *)
(* (app/src/drivers/zsw_display_control.c).                                *)
(*                                                                         *)
(* Three threads run the code: "pm" (the power manager, the caller of      *)
(* zsw_display_control_sleep_ctrl and zsw_display_control_pwr_ctrl), "ui"  *)
(* (a caller of zsw_display_control_set_brightness) and "wq" (the system   *)
(* work queue that runs lvgl_render for the delayable work lvgl_work).     *)
(* Every thread has a program position; one step of the model is one       *)
(* stretch of code between two synchronisation points.                     *)
(*                                                                         *)
(* Assumptions about what is outside the file:                             *)
(*  - k_mutex is re-entrant for its owner (Zephyr k_mutex);                *)
(*  - k_work_schedule does nothing when the work is already delayed or is  *)
(*    being cancelled; k_work_cancel_delayable_sync removes a pending run  *)
(*    and waits for a running handler to return;                           *)
(*  - __ASSERT is compiled in and a failed __ASSERT halts the system;      *)
(*  - after boot the regulator is enabled, panel and touch are active,     *)
(*    the panel is blanked, the PWM is not programmed and LVGL's screen    *)
(*    is invalid.                                                          *)
(***************************************************************************)
EXTENDS Integers, FiniteSets, Sequences, TLC

\* ------------------------------------------------------------------ bounds
\* set_brightness is exercised with 0, 1..MaxLowPercent, MaxPercent and the
\* out-of-range value MaxPercent+1.
MaxLowPercent == 1

\* --------------------------------------------------------------- constants
EALREADY == 120
EIO == 5
InitialBrightness == 30
MaxPercent == 100
\* display_blk.period, a devicetree value (nanoseconds scaled down)
Period == 200

DISPLAY_STATE_AWAKE == "Awake"
DISPLAY_STATE_SLEEPING == "Sleeping"
DISPLAY_STATE_POWERED_OFF == "PoweredOff"
display_state_t ==
    {DISPLAY_STATE_AWAKE, DISPLAY_STATE_SLEEPING, DISPLAY_STATE_POWERED_OFF}

Threads == {"pm", "ui", "wq"}
NoOwner == "none"
Percents == {0, MaxPercent, MaxPercent + 1} \cup (1..MaxLowPercent)

VARIABLES
    blkReady,       \* device_is_ready(display_blk.dev)
    regReady,       \* device_is_ready(reg_dev)
    touchReady,     \* device_is_ready(touch_dev)
    display_state,
    first_render_since_poweron,
    last_brightness,
    pulse,          \* pulse width last given to pwm_set_pulse_dt
    regEnabled,     \* regulator_enable / regulator_disable
    panelPm,        \* power-management state of display_dev
    touchPm,        \* power-management state of touch_dev
    blanking,       \* display_blanking_on / display_blanking_off
    dirty,          \* the active screen is invalidated (lv_obj_invalidate)
    mutexOwner,     \* display_mutex
    mutexCount,
    lvgl_work,      \* flags of the delayable work item
    pmPc, pmOp, pmOn, pmRes,
    pmPre,          \* the display_state the switch statement read
    fx,             \* the calls the current pm call has issued
    lastOk,         \* the request of the pm call just before, when it returned 0
    uiPc,
    rPc,            \* position of the work queue thread in lvgl_render
    sbPc, sbArg,    \* per thread: frame of zsw_display_control_set_brightness
    halted          \* a failed __ASSERT stopped the system

hwVars == <<blkReady, regReady, touchReady>>
devVars == <<pulse, regEnabled, panelPm, touchPm, blanking, dirty>>
sharedVars == <<display_state, first_render_since_poweron, last_brightness>>
mutexVars == <<mutexOwner, mutexCount>>
pmVars == <<pmPc, pmOp, pmOn, pmRes, pmPre, fx, lastOk>>
sbVars == <<sbPc, sbArg>>
vars == <<hwVars, devVars, sharedVars, mutexVars, lvgl_work, pmVars, uiPc,
          rPc, sbVars, halted>>

\* ----------------------------------------------------------- pure helpers

\* line 217: uint32_t pulse_width = percent * (display_blk.period / 100)
PulseWidth(percent) == percent * (Period \div 100)

\* mutant: the percent is remembered without the test for 0
RememberBrightness_zero(last, percent) == percent

\* lines 223-225: if (percent != 0) last_brightness = percent
RememberBrightness(last, percent) == IF percent # 0 THEN percent ELSE last

\* mutant: sleep_ctrl(true) wakes the display from PoweredOff
sleep_ctrl_branch_wakes_powered_off(state, on) ==
    CASE state = DISPLAY_STATE_AWAKE /\ on -> "already"
      [] state = DISPLAY_STATE_AWAKE /\ ~on -> "sleep"
      [] state = DISPLAY_STATE_SLEEPING /\ on -> "wake"
      [] state = DISPLAY_STATE_SLEEPING /\ ~on -> "already"
      [] state = DISPLAY_STATE_POWERED_OFF /\ on -> "wake"
      [] state = DISPLAY_STATE_POWERED_OFF /\ ~on -> "eio"

\* mutant: sleep_ctrl(true) runs the wake sequence again when already awake
sleep_ctrl_branch_rewakes(state, on) ==
    CASE state = DISPLAY_STATE_AWAKE /\ on -> "wake"
      [] state = DISPLAY_STATE_AWAKE /\ ~on -> "sleep"
      [] state = DISPLAY_STATE_SLEEPING /\ on -> "wake"
      [] state = DISPLAY_STATE_SLEEPING /\ ~on -> "already"
      [] state = DISPLAY_STATE_POWERED_OFF -> "eio"

\* lines 84-141: the branch the switch of sleep_ctrl takes
sleep_ctrl_branch(state, on) ==
    CASE state = DISPLAY_STATE_AWAKE /\ on -> "already"
      [] state = DISPLAY_STATE_AWAKE /\ ~on -> "sleep"
      [] state = DISPLAY_STATE_SLEEPING /\ on -> "wake"
      [] state = DISPLAY_STATE_SLEEPING /\ ~on -> "already"
      [] state = DISPLAY_STATE_POWERED_OFF -> "eio"

\* mutant: the power is switched without device_is_ready(reg_dev)
pwr_ctrl_branch_ignores_regulator(state, on, ready) ==
    CASE state = DISPLAY_STATE_AWAKE -> "already"
      [] state = DISPLAY_STATE_SLEEPING /\ on -> "already"
      [] state = DISPLAY_STATE_SLEEPING /\ ~on -> "off"
      [] state = DISPLAY_STATE_POWERED_OFF /\ on -> "on"
      [] state = DISPLAY_STATE_POWERED_OFF /\ ~on -> "already"

\* mutant: the power-off path lacks device_is_ready(reg_dev)
pwr_ctrl_branch_off_unchecked(state, on, ready) ==
    CASE state = DISPLAY_STATE_AWAKE -> "already"
      [] state = DISPLAY_STATE_SLEEPING /\ on -> "already"
      [] state = DISPLAY_STATE_SLEEPING /\ ~on -> "off"
      [] state = DISPLAY_STATE_POWERED_OFF /\ on ->
            IF ready THEN "on" ELSE "already"
      [] state = DISPLAY_STATE_POWERED_OFF /\ ~on -> "already"

\* mutant: pwr_ctrl(false) powers off an awake display
pwr_ctrl_branch_off_from_awake(state, on, ready) ==
    CASE state = DISPLAY_STATE_AWAKE /\ on -> "already"
      [] state \in {DISPLAY_STATE_AWAKE, DISPLAY_STATE_SLEEPING} /\ ~on ->
            IF ready THEN "off" ELSE "already"
      [] state = DISPLAY_STATE_SLEEPING /\ on -> "already"
      [] state = DISPLAY_STATE_POWERED_OFF /\ on ->
            IF ready THEN "on" ELSE "already"
      [] state = DISPLAY_STATE_POWERED_OFF /\ ~on -> "already"

\* lines 154-193: the branch the switch of pwr_ctrl takes
pwr_ctrl_branch(state, on, ready) ==
    CASE state = DISPLAY_STATE_AWAKE -> "already"
      [] state = DISPLAY_STATE_SLEEPING /\ on -> "already"
      [] state = DISPLAY_STATE_SLEEPING /\ ~on ->
            IF ready THEN "off" ELSE "already"
      [] state = DISPLAY_STATE_POWERED_OFF /\ on ->
            IF ready THEN "on" ELSE "already"
      [] state = DISPLAY_STATE_POWERED_OFF /\ ~on -> "already"

\* mutant: res = 0 is missing after the power-off sequence
pwr_ctrl_res_forgotten(branch, res) == IF branch = "on" THEN 0 ELSE res

\* lines 173 and 187: res = 0 on the two branches that switch the power
pwr_ctrl_res(branch, res) == IF branch \in {"off", "on"} THEN 0 ELSE res

\* mutant: the readiness of the backlight is not checked
set_brightness_gate_unchecked(ready, percent) ==
    IF percent >= 0 /\ percent <= MaxPercent THEN "lock" ELSE "assert"

\* lines 207-210: what set_brightness does before it takes the mutex
set_brightness_gate(ready, percent) ==
    IF ~ready THEN "return"
    ELSE IF percent >= 0 /\ percent <= MaxPercent THEN "lock"
    ELSE "assert"

\* mutant: the wake never restores the brightness
restore_on_wake_never(flag) == FALSE

\* mutant: the wake restores the brightness whatever the flag
restore_on_wake_always(flag) == TRUE

\* line 122: if (!first_render_since_poweron)
restore_on_wake(flag) == ~flag

\* mutant: the backlight is restored after every render pass
render_restores_always(flag) == TRUE

\* line 235: if (first_render_since_poweron)
render_restores(flag) == flag

\* mutant: the screen is not invalidated at the end of the sleep transition
lv_obj_invalidate_missing(d) == d

\* line 106: lv_obj_invalidate(lv_scr_act()) marks the whole screen dirty
lv_obj_invalidate(d) == TRUE

\* k_work_schedule: a work that is delayed, queued or being cancelled is left
\* alone (a running one may be scheduled again)
k_work_schedule(w) ==
    IF w.pending \/ w.canceling THEN w ELSE [w EXCEPT !.pending = TRUE]

\* mutant: the cancellation does not wait for a running handler
\* (k_work_cancel_delayable instead of k_work_cancel_delayable_sync)
k_work_cancel_async(w) ==
    [pending |-> FALSE, running |-> w.running, canceling |-> FALSE]

\* mutant: the cancellation waits for a running handler but leaves a delayed
\* run in place
k_work_cancel_keeps_pending(w) ==
    [pending |-> w.pending, running |-> w.running, canceling |-> w.running]

\* k_work_cancel_delayable_sync, first half: drop the pending run, mark a
\* running handler as being cancelled
k_work_cancel(w) ==
    [pending |-> FALSE, running |-> w.running, canceling |-> w.running]

\* line 200-203
zsw_display_control_get_brightness == last_brightness

\* ------------------------------------------------------------------- mutex
\* mutant: the lock is taken without waiting for its owner to release it
k_mutex_lock_nowait(t) ==
    /\ mutexOwner' = t
    /\ mutexCount' = mutexCount + 1

k_mutex_lock(t) ==
    /\ mutexOwner \in {NoOwner, t}
    /\ mutexOwner' = t
    /\ mutexCount' = mutexCount + 1

k_mutex_unlock(t) ==
    /\ mutexOwner = t
    /\ mutexCount' = mutexCount - 1
    /\ mutexOwner' = IF mutexCount = 1 THEN NoOwner ELSE t

\* -------------------------------------------------------------------- init
\* zsw_display_control_init, lines 60-76, and the static initialisers
Init ==
    /\ blkReady \in BOOLEAN
    /\ regReady \in BOOLEAN
    /\ touchReady \in BOOLEAN
    /\ display_state = DISPLAY_STATE_SLEEPING
    /\ first_render_since_poweron = FALSE
    /\ last_brightness = InitialBrightness
    /\ pulse = 0
    /\ regEnabled = TRUE
    /\ panelPm = "active"
    /\ touchPm = "active"
    /\ blanking = TRUE
    /\ dirty = TRUE
    /\ mutexOwner = NoOwner
    /\ mutexCount = 0
    /\ lvgl_work = [pending |-> FALSE, running |-> FALSE, canceling |-> FALSE]
    /\ pmPc = "idle"
    /\ pmOp = "none"
    /\ pmOn = FALSE
    /\ pmRes = 0
    /\ pmPre = "none"
    /\ fx = {}
    /\ lastOk = <<"none", FALSE>>
    /\ uiPc = "idle"
    /\ rPc = "idle"
    /\ sbPc = [t \in Threads |-> "none"]
    /\ sbArg = [t \in Threads |-> 0]
    /\ halted = FALSE

\* ------------------------------------ zsw_display_control_set_brightness
\* A caller t enters with sbPc[t] = "entry" and sbArg[t] = percent, and has
\* returned when sbPc[t] is "none" again; its next step drops the frame.
set_brightness_call(t, percent) ==
    /\ sbPc' = [sbPc EXCEPT ![t] = "entry"]
    /\ sbArg' = [sbArg EXCEPT ![t] = percent]

set_brightness_returned(t) ==
    /\ sbPc[t] = "none"
    /\ sbArg' = [sbArg EXCEPT ![t] = 0]
    /\ sbPc' = sbPc

\* lines 207-210: the readiness check, then the range assertion
set_brightness_entry(t) ==
    /\ ~halted
    /\ sbPc[t] = "entry"
    /\ LET g == set_brightness_gate(blkReady, sbArg[t]) IN
       /\ sbPc' = [sbPc EXCEPT ![t] = IF g = "return" THEN "none" ELSE g]
       /\ halted' = (g = "assert")
    /\ UNCHANGED <<hwVars, devVars, sharedVars, mutexVars, lvgl_work, pmVars,
                   uiPc, rPc, sbArg>>

\* line 213
set_brightness_lock(t) ==
    /\ ~halted
    /\ sbPc[t] = "lock"
    /\ k_mutex_lock(t)
    /\ sbPc' = [sbPc EXCEPT ![t] = "body"]
    /\ UNCHANGED <<hwVars, devVars, sharedVars, lvgl_work, pmVars, uiPc, rPc,
                   sbArg, halted>>

\* lines 217-227
set_brightness_body(t) ==
    /\ ~halted
    /\ sbPc[t] = "body"
    /\ last_brightness' = RememberBrightness(last_brightness, sbArg[t])
    /\ pulse' = PulseWidth(sbArg[t])
    /\ sbPc' = [sbPc EXCEPT ![t] = "unlock"]
    /\ UNCHANGED <<hwVars, regEnabled, panelPm, touchPm, blanking, dirty,
                   display_state, first_render_since_poweron, mutexVars,
                   lvgl_work, pmVars, uiPc, rPc, sbArg, halted>>

\* line 229
set_brightness_unlock(t) ==
    /\ ~halted
    /\ sbPc[t] = "unlock"
    /\ k_mutex_unlock(t)
    /\ sbPc' = [sbPc EXCEPT ![t] = "none"]
    /\ UNCHANGED <<hwVars, devVars, sharedVars, lvgl_work, pmVars, uiPc, rPc,
                   sbArg, halted>>

zsw_display_control_set_brightness ==
    \E t \in Threads :
        \/ set_brightness_entry(t)
        \/ set_brightness_lock(t)
        \/ set_brightness_body(t)
        \/ set_brightness_unlock(t)

\* ------------------------------------------------ the ui thread (a caller)
ui_call ==
    /\ ~halted
    /\ uiPc = "idle"
    /\ \E p \in Percents : set_brightness_call("ui", p)
    /\ uiPc' = "called"
    /\ UNCHANGED <<hwVars, devVars, sharedVars, mutexVars, lvgl_work, pmVars,
                   rPc, halted>>

ui_return ==
    /\ ~halted
    /\ uiPc = "called"
    /\ set_brightness_returned("ui")
    /\ uiPc' = "idle"
    /\ UNCHANGED <<hwVars, devVars, sharedVars, mutexVars, lvgl_work, pmVars,
                   rPc, halted>>

\* ------------------------------------------------- power management calls
\* pm_device_action_run of Zephyr: the state a device is in after an action
pm_device_action_run(state, action) ==
    CASE action = "SUSPEND" -> IF state = "active" THEN "suspended" ELSE state
      [] action = "RESUME" -> IF state = "suspended" THEN "active" ELSE state
      [] action = "TURN_OFF" -> "off"
      [] action = "TURN_ON" -> IF state = "off" THEN "suspended" ELSE state

\* ------------------------------------------- the pm thread: common steps
\* lines 78-80 and 148-150: entry, int res = -EALREADY
pm_call(op, on) ==
    /\ ~halted
    /\ pmPc = "idle"
    /\ pmOp' = op
    /\ pmOn' = on
    /\ pmRes' = -EALREADY
    /\ pmPc' = "lock"
    /\ fx' = {}
    /\ UNCHANGED <<hwVars, devVars, sharedVars, mutexVars, lvgl_work, pmPre,
                   lastOk, uiPc, rPc, sbVars, halted>>

\* lines 82 and 152: k_mutex_lock(&display_mutex, K_FOREVER)
pm_lock(op) ==
    /\ ~halted
    /\ pmPc = "lock"
    /\ pmOp = op
    /\ k_mutex_lock("pm")
    /\ pmPc' = "switch"
    /\ UNCHANGED <<hwVars, devVars, sharedVars, lvgl_work, pmOp, pmOn, pmRes,
                   pmPre, fx, lastOk, uiPc, rPc, sbVars, halted>>

\* lines 143 and 195: k_mutex_unlock(&display_mutex)
pm_unlock(op) ==
    /\ ~halted
    /\ pmPc = "unlock"
    /\ pmOp = op
    /\ k_mutex_unlock("pm")
    /\ pmPc' = "ret"
    /\ UNCHANGED <<hwVars, devVars, sharedVars, lvgl_work, pmOp, pmOn, pmRes,
                   pmPre, fx, lastOk, uiPc, rPc, sbVars, halted>>

\* lines 145 and 197: return res
pm_return(op) ==
    /\ ~halted
    /\ pmPc = "ret"
    /\ pmOp = op
    /\ lastOk' = IF pmRes = 0 THEN <<pmOp, pmOn>> ELSE <<"none", FALSE>>
    /\ pmPc' = "idle"
    /\ pmOp' = "none"
    /\ pmOn' = FALSE
    /\ pmRes' = 0
    /\ pmPre' = "none"
    /\ fx' = {}
    /\ UNCHANGED <<hwVars, devVars, sharedVars, mutexVars, lvgl_work, uiPc,
                   rPc, sbVars, halted>>

\* -------------------------------------- zsw_display_control_sleep_ctrl
sleep_ctrl_call == \E on \in BOOLEAN : pm_call("sleep", on)

sleep_ctrl_lock == pm_lock("sleep")

\* lines 84-99, 110-118, 128-140: the switch up to the first call that can
\* block
sleep_ctrl_switch ==
    /\ ~halted
    /\ pmPc = "switch"
    /\ pmOp = "sleep"
    /\ pmPre' = display_state
    /\ LET b == sleep_ctrl_branch(display_state, pmOn) IN
       CASE b = "already" ->
              /\ pmRes' = -EALREADY
              /\ pmPc' = "unlock"
              /\ UNCHANGED <<display_state, blanking, panelPm, touchPm, fx,
                             sbVars>>
         [] b = "eio" ->
              /\ pmRes' = -EIO
              /\ pmPc' = "unlock"
              /\ UNCHANGED <<display_state, blanking, panelPm, touchPm, fx,
                             sbVars>>
         [] b = "sleep" ->
              /\ display_state' = DISPLAY_STATE_SLEEPING
              /\ blanking' = TRUE
              /\ panelPm' = pm_device_action_run(panelPm, "SUSPEND")
              /\ touchPm' = IF touchReady
                            THEN pm_device_action_run(touchPm, "SUSPEND")
                            ELSE touchPm
              /\ set_brightness_call("pm", 0)
              /\ fx' = fx \cup {"state", "blanking_on", "panel_suspend",
                                "set_brightness"}
                          \cup (IF touchReady THEN {"touch_suspend"} ELSE {})
              /\ pmPc' = "sleep_cancel"
              /\ pmRes' = pmRes
         [] b = "wake" ->
              /\ display_state' = DISPLAY_STATE_AWAKE
              /\ panelPm' = pm_device_action_run(panelPm, "RESUME")
              /\ touchPm' = IF touchReady
                            THEN pm_device_action_run(touchPm, "RESUME")
                            ELSE touchPm
              /\ fx' = fx \cup {"state", "panel_resume"}
                          \cup (IF touchReady THEN {"touch_resume"} ELSE {})
              /\ pmPc' = "wake_check"
              /\ pmRes' = pmRes
              /\ UNCHANGED <<blanking, sbVars>>
    /\ UNCHANGED <<hwVars, pulse, regEnabled, dirty,
                   first_render_since_poweron, last_brightness, mutexVars,
                   lvgl_work, pmOp, pmOn, lastOk, uiPc, rPc, halted>>

\* line 102, first half: k_work_cancel_delayable_sync removes the pending run
sleep_ctrl_cancel ==
    /\ ~halted
    /\ pmPc = "sleep_cancel"
    /\ set_brightness_returned("pm")
    /\ lvgl_work' = k_work_cancel(lvgl_work)
    /\ fx' = fx \cup {"cancel"}
    /\ pmPc' = "sleep_wait"
    /\ UNCHANGED <<hwVars, devVars, sharedVars, mutexVars, pmOp, pmOn, pmRes,
                   pmPre, lastOk, uiPc, rPc, halted>>

\* line 102, second half (wait for a running handler), and lines 106-107
sleep_ctrl_wait ==
    /\ ~halted
    /\ pmPc = "sleep_wait"
    /\ ~lvgl_work.canceling
    /\ dirty' = lv_obj_invalidate(dirty)
    /\ pmRes' = 0
    /\ fx' = fx \cup {"invalidate"}
    /\ pmPc' = "unlock"
    /\ UNCHANGED <<hwVars, pulse, regEnabled, panelPm, touchPm, blanking,
                   sharedVars, mutexVars, lvgl_work, pmOp, pmOn, pmPre,
                   lastOk, uiPc, rPc, sbVars, halted>>

\* lines 122-124
sleep_ctrl_wake_check ==
    /\ ~halted
    /\ pmPc = "wake_check"
    /\ IF restore_on_wake(first_render_since_poweron)
       THEN /\ set_brightness_call("pm", last_brightness)
            /\ fx' = fx \cup {"set_brightness"}
       ELSE UNCHANGED <<sbVars, fx>>
    /\ pmPc' = "wake_finish"
    /\ UNCHANGED <<hwVars, devVars, sharedVars, mutexVars, lvgl_work, pmOp,
                   pmOn, pmRes, pmPre, lastOk, uiPc, rPc, halted>>

\* lines 125-127
sleep_ctrl_wake_finish ==
    /\ ~halted
    /\ pmPc = "wake_finish"
    /\ set_brightness_returned("pm")
    /\ blanking' = FALSE
    /\ lvgl_work' = k_work_schedule(lvgl_work)
    /\ pmRes' = 0
    /\ fx' = fx \cup {"blanking_off", "schedule"}
    /\ pmPc' = "unlock"
    /\ UNCHANGED <<hwVars, pulse, regEnabled, panelPm, touchPm, dirty,
                   sharedVars, mutexVars, pmOp, pmOn, pmPre, lastOk, uiPc,
                   rPc, halted>>

sleep_ctrl_unlock == pm_unlock("sleep")

sleep_ctrl_return == pm_return("sleep")

zsw_display_control_sleep_ctrl ==
    \/ sleep_ctrl_call
    \/ sleep_ctrl_lock
    \/ sleep_ctrl_switch
    \/ sleep_ctrl_cancel
    \/ sleep_ctrl_wait
    \/ sleep_ctrl_wake_check
    \/ sleep_ctrl_wake_finish
    \/ sleep_ctrl_unlock
    \/ sleep_ctrl_return

\* ---------------------------------------- zsw_display_control_pwr_ctrl
pwr_ctrl_call == \E on \in BOOLEAN : pm_call("pwr", on)

pwr_ctrl_lock == pm_lock("pwr")

\* lines 154-193
pwr_ctrl_switch ==
    /\ ~halted
    /\ pmPc = "switch"
    /\ pmOp = "pwr"
    /\ pmPre' = display_state
    /\ LET b == pwr_ctrl_branch(display_state, pmOn, regReady) IN
       CASE b = "already" ->
              /\ pmRes' = pwr_ctrl_res(b, pmRes)
              /\ UNCHANGED <<display_state, regEnabled, panelPm,
                             first_render_since_poweron, fx>>
         [] b = "off" ->
              /\ display_state' = DISPLAY_STATE_POWERED_OFF
              /\ regEnabled' = FALSE
              /\ panelPm' = pm_device_action_run(panelPm, "TURN_OFF")
              /\ pmRes' = pwr_ctrl_res(b, pmRes)
              /\ fx' = fx \cup {"state", "regulator_disable", "panel_off"}
              /\ UNCHANGED first_render_since_poweron
         [] b = "on" ->
              /\ display_state' = DISPLAY_STATE_SLEEPING
              /\ regEnabled' = TRUE
              /\ panelPm' = pm_device_action_run(panelPm, "TURN_ON")
              /\ first_render_since_poweron' = TRUE
              /\ pmRes' = pwr_ctrl_res(b, pmRes)
              /\ fx' = fx \cup {"state", "regulator_enable", "panel_on",
                                "first_render"}
    /\ pmPc' = "unlock"
    /\ UNCHANGED <<hwVars, pulse, touchPm, blanking, dirty, last_brightness,
                   mutexVars, lvgl_work, pmOp, pmOn, lastOk, uiPc, rPc,
                   sbVars, halted>>

pwr_ctrl_unlock == pm_unlock("pwr")

pwr_ctrl_return == pm_return("pwr")

zsw_display_control_pwr_ctrl ==
    \/ pwr_ctrl_call
    \/ pwr_ctrl_lock
    \/ pwr_ctrl_switch
    \/ pwr_ctrl_unlock
    \/ pwr_ctrl_return

\* --------------------------------------------- the work queue: lvgl_render
\* the delay of lvgl_work expires and the work queue starts the handler
work_start ==
    /\ ~halted
    /\ rPc = "idle"
    /\ lvgl_work.pending
    /\ ~lvgl_work.running
    /\ lvgl_work' = [lvgl_work EXCEPT !.pending = FALSE, !.running = TRUE]
    /\ rPc' = "render"
    /\ UNCHANGED <<hwVars, devVars, sharedVars, mutexVars, pmVars, uiPc,
                   sbVars, halted>>

\* line 234: lv_task_handler() draws what is invalid
lvgl_render_task ==
    /\ ~halted
    /\ rPc = "render"
    /\ dirty' = FALSE
    /\ rPc' = "check"
    /\ UNCHANGED <<hwVars, pulse, regEnabled, panelPm, touchPm, blanking,
                   sharedVars, mutexVars, lvgl_work, pmVars, uiPc, sbVars,
                   halted>>

\* lines 235-236
lvgl_render_check ==
    /\ ~halted
    /\ rPc = "check"
    /\ IF render_restores(first_render_since_poweron)
       THEN /\ set_brightness_call("wq", last_brightness)
            /\ rPc' = "clear"
       ELSE /\ rPc' = "resched"
            /\ UNCHANGED sbVars
    /\ UNCHANGED <<hwVars, devVars, sharedVars, mutexVars, lvgl_work, pmVars,
                   uiPc, halted>>

\* line 237
lvgl_render_clear ==
    /\ ~halted
    /\ rPc = "clear"
    /\ set_brightness_returned("wq")
    /\ first_render_since_poweron' = FALSE
    /\ rPc' = "resched"
    /\ UNCHANGED <<hwVars, devVars, display_state, last_brightness, mutexVars,
                   lvgl_work, pmVars, uiPc, halted>>

\* line 239
lvgl_render_resched ==
    /\ ~halted
    /\ rPc = "resched"
    /\ lvgl_work' = k_work_schedule(lvgl_work)
    /\ rPc' = "finish"
    /\ UNCHANGED <<hwVars, devVars, sharedVars, mutexVars, pmVars, uiPc,
                   sbVars, halted>>

\* the handler has returned: the work queue clears the running flag and
\* completes a cancellation that waits for it
work_finish ==
    /\ ~halted
    /\ rPc = "finish"
    /\ lvgl_work' = [lvgl_work EXCEPT !.running = FALSE, !.canceling = FALSE]
    /\ rPc' = "idle"
    /\ UNCHANGED <<hwVars, devVars, sharedVars, mutexVars, pmVars, uiPc,
                   sbVars, halted>>

lvgl_render ==
    \/ work_start
    \/ lvgl_render_task
    \/ lvgl_render_check
    \/ lvgl_render_clear
    \/ lvgl_render_resched
    \/ work_finish

\* ------------------------------------------------------------------- next
Next ==
    \/ zsw_display_control_sleep_ctrl
    \/ zsw_display_control_pwr_ctrl
    \/ zsw_display_control_set_brightness
    \/ ui_call
    \/ ui_return
    \/ lvgl_render

Spec == Init /\ [][Next]_vars

\* ---------------------------------------------------------------- fairness
\* The steps of each thread other than the decision to make a new call.  The
\* Zephyr scheduler runs every ready thread, and a thread that waits for
\* display_mutex is in its wait queue and gets the mutex when it is released
\* (hence strong fairness: the lock step is enabled again and again).
ThreadSteps(t) ==
    \/ set_brightness_entry(t)
    \/ set_brightness_lock(t)
    \/ set_brightness_body(t)
    \/ set_brightness_unlock(t)

PmSteps ==
    \/ ThreadSteps("pm")
    \/ sleep_ctrl_lock
    \/ sleep_ctrl_switch
    \/ sleep_ctrl_cancel
    \/ sleep_ctrl_wait
    \/ sleep_ctrl_wake_check
    \/ sleep_ctrl_wake_finish
    \/ sleep_ctrl_unlock
    \/ sleep_ctrl_return
    \/ pwr_ctrl_lock
    \/ pwr_ctrl_switch
    \/ pwr_ctrl_unlock
    \/ pwr_ctrl_return

UiSteps == ThreadSteps("ui") \/ ui_return

WqSteps == ThreadSteps("wq") \/ lvgl_render

FairSpec ==
    /\ Spec
    /\ SF_vars(PmSteps)
    /\ SF_vars(UiSteps)
    /\ SF_vars(WqSteps)

\* ================================================================ claims

\* The transition tables of the specification, written out as tables
TableSleep(s, on) ==
    CASE s = "Awake" /\ ~on -> "Sleeping"
      [] s = "Sleeping" /\ on -> "Awake"
      [] OTHER -> s

TablePwr(s, on, ready) ==
    CASE s = "Sleeping" /\ ~on /\ ready -> "PoweredOff"
      [] s = "PoweredOff" /\ on /\ ready -> "Sleeping"
      [] OTHER -> s

PmReturned(op) == pmPc = "ret" /\ pmOp = op

\* C1: after every sleep_ctrl / pwr_ctrl call, in any sequence of calls from
\* the initial state Sleeping and for either readiness of the regulator,
\* display_state is the entry of the transition table for the state the call
\* found and its argument.
C1_TransitionTables ==
    /\ PmReturned("sleep") => display_state = TableSleep(pmPre, pmOn)
    /\ PmReturned("pwr") => display_state = TablePwr(pmPre, pmOn, regReady)

C1_Witness ==
    /\ PmReturned("pwr")
    /\ pmOn
    /\ pmPre = "PoweredOff"
    /\ display_state = "Sleeping"
    /\ lastOk = <<"pwr", FALSE>>

\* C2: pwr_ctrl called for a transition the table allows from the current
\* state, with the regulator not ready, returns -EIO (HardwareUnavailable, not
\* -EALREADY) and leaves display_state unchanged.
C2_HardwareUnavailable ==
    (/\ PmReturned("pwr")
     /\ ~regReady
     /\ \/ pmPre = "Sleeping" /\ ~pmOn
        \/ pmPre = "PoweredOff" /\ pmOn)
    => /\ pmRes = -EIO
       /\ pmRes # -EALREADY
       /\ display_state = pmPre

\* C3: from Sleeping with the regulator ready pwr_ctrl(false) returns 0 and
\* the state becomes PoweredOff; in PoweredOff every sleep_ctrl call returns
\* -EIO and leaves the state PoweredOff; the state leaves PoweredOff only in
\* a pwr_ctrl(true) call that returns 0.
C3_PoweredOffRefusesSleepCtrl ==
    /\ [](/\ (PmReturned("pwr") /\ ~pmOn /\ pmPre = "Sleeping" /\ regReady)
             => (pmRes = 0 /\ display_state = "PoweredOff")
          /\ (PmReturned("sleep") /\ pmPre = "PoweredOff")
             => (pmRes = -EIO /\ display_state = "PoweredOff"))
    /\ [][(display_state = "PoweredOff" /\ display_state' # "PoweredOff")
          => (pmOp = "pwr" /\ pmOn /\ pmRes' = 0)]_vars

C3_Witness ==
    /\ PmReturned("sleep")
    /\ pmOn
    /\ pmPre = "PoweredOff"
    /\ pmRes = -EIO
    /\ display_state = "PoweredOff"

\* what a transition call can change besides the mutex and its own locals
TransitionEffects ==
    <<display_state, first_render_since_poweron, last_brightness, pulse,
      regEnabled, panelPm, touchPm, blanking, lvgl_work>>

\* C4: a sleep_ctrl or pwr_ctrl call that returns a result other than 0 has
\* issued no call with an effect and none of its steps has changed
\* display_state, first_render_since_poweron, last_brightness, the pulse
\* width, the regulator, the panel or touch power state, the blanking or the
\* work item.
C4_NoEffectUnlessOk ==
    /\ []((pmPc = "ret" /\ pmRes # 0) => fx = {})
    /\ [][(/\ pmPc' # pmPc
           /\ \/ pmPc' \in {"lock", "switch"}
              \/ pmPc' \in {"unlock", "ret"} /\ pmRes' # 0)
          => UNCHANGED TransitionEffects]_vars

C4_Witness ==
    /\ PmReturned("pwr")
    /\ ~regReady
    /\ ~pmOn
    /\ pmPre = "Sleeping"
    /\ pmRes # 0
    /\ fx = {}

\* C5: pwr_ctrl(false) in Awake returns -EALREADY and leaves the state Awake;
\* every step into PoweredOff starts in Sleeping and every step out of
\* PoweredOff ends in Sleeping.
C5_PowerOffOnlyFromSleeping ==
    /\ []((PmReturned("pwr") /\ ~pmOn /\ pmPre = "Awake")
          => (pmRes = -EALREADY /\ display_state = "Awake"))
    /\ [][/\ (display_state # "PoweredOff" /\ display_state' = "PoweredOff")
             => display_state = "Sleeping"
          /\ (display_state = "PoweredOff" /\ display_state' # "PoweredOff")
             => display_state' = "Sleeping"]_vars

C5_Witness ==
    /\ PmReturned("pwr")
    /\ ~pmOn
    /\ pmPre = "Awake"
    /\ regReady
    /\ display_state = "Awake"

\* C6: a request that returned 0, issued again as the next transition call,
\* returns -EALREADY and issues no call with an effect (no panel or touch
\* resume, no brightness command, no scheduling of the render work).
C6_IdempotentOnRepeat ==
    (pmPc = "ret" /\ lastOk = <<pmOp, pmOn>>)
    => (pmRes = -EALREADY /\ fx = {})

C6_Witness ==
    /\ PmReturned("sleep")
    /\ pmOn
    /\ lastOk = <<"sleep", TRUE>>
    /\ pmRes = -EALREADY
    /\ display_state = "Awake"

\* set_brightness (called by thread t) gives the PWM its pulse width
CommandsBacklight(t) == sbPc[t] = "body" /\ sbPc'[t] = "unlock"

\* C7: in every reachable state get_brightness returns a value in 1..100, and
\* a set_brightness(0), the forced one of the Awake->Sleeping transition
\* included, does not write last_brightness.
C7_BrightnessNeverZero ==
    /\ [](zsw_display_control_get_brightness \in 1..100)
    /\ [][\A t \in Threads :
            (CommandsBacklight(t) /\ sbArg[t] = 0)
            => last_brightness' = last_brightness]_vars

C7_Witness ==
    /\ blkReady
    /\ pmPc = "sleep_cancel"
    /\ sbPc["pm"] = "none"
    /\ sbArg["pm"] = 0
    /\ pulse = 0
    /\ zsw_display_control_get_brightness = MaxPercent

\* C8: with the backlight device not ready every set_brightness call returns
\* at once, without a fatal error, the PWM is never given a pulse width and
\* last_brightness keeps its value.
C8_BacklightNotReadyNoOp ==
    ~blkReady =>
        /\ pulse = 0
        /\ last_brightness = InitialBrightness
        /\ ~halted
        /\ \A t \in Threads : sbPc[t] \in {"none", "entry"}

C8_Witness ==
    /\ ~blkReady
    /\ uiPc = "called"
    /\ sbPc["ui"] = "none"
    /\ sbArg["ui"] = MaxPercent
    /\ display_state = "Awake"

\* C9: no set_brightness call with a percent above 100 returns normally,
\* whatever the readiness of the backlight and the display state.
C9_OutOfRangeIsFatal ==
    ~(uiPc = "called" /\ sbPc["ui"] = "none" /\ sbArg["ui"] > MaxPercent)

\* C10: the step at line 122 of a wake calls set_brightness(last_brightness)
\* when first_render_since_poweron is false and calls nothing when it is
\* true; a brightness so restored is in force when the wake unlocks; the
\* flag is set only in PoweredOff->Sleeping with the render work idle; while
\* the flag is set a render pass starts only after a wake, and the only
\* nonzero pulse width from the pm or the work queue thread is the one of a
\* render pass that has finished lv_task_handler.
C10_BacklightDeferredAfterPowerOn ==
    /\ []((/\ pmPc = "unlock"
           /\ pmOp = "sleep"
           /\ pmOn
           /\ blkReady
           /\ "set_brightness" \in fx)
          => (pulse = PulseWidth(last_brightness) /\ pulse # 0))
    /\ [][(pmPc = "wake_check" /\ pmPc' # pmPc)
          => IF first_render_since_poweron
             THEN sbPc'["pm"] = "none" /\ "set_brightness" \notin fx'
             ELSE /\ sbPc'["pm"] = "entry"
                  /\ sbArg'["pm"] = last_brightness
                  /\ "set_brightness" \in fx']_vars
    /\ [][(~first_render_since_poweron /\ first_render_since_poweron')
          => /\ display_state = "PoweredOff"
             /\ display_state' = "Sleeping"
             /\ rPc = "idle"
             /\ ~lvgl_work.pending
             /\ ~lvgl_work.running]_vars
    /\ [][(first_render_since_poweron /\ rPc = "idle" /\ rPc' = "render")
          => (display_state = "Awake" \/ pmPc = "sleep_cancel")]_vars
    /\ [][(/\ first_render_since_poweron
           /\ \E t \in {"pm", "wq"} : CommandsBacklight(t) /\ pulse' # 0)
          => (CommandsBacklight("wq") /\ rPc = "clear")]_vars

C10_Witness ==
    /\ first_render_since_poweron
    /\ rPc = "clear"
    /\ sbPc["wq"] = "unlock"
    /\ pulse = PulseWidth(last_brightness)
    /\ pulse # 0
    /\ display_state = "Awake"

\* the render work is neither delayed, queued, running nor being cancelled
WorkIdle ==
    /\ rPc = "idle"
    /\ ~lvgl_work.pending
    /\ ~lvgl_work.running
    /\ ~lvgl_work.canceling

\* sleep_ctrl(true) has just returned 0
WakeReturned == PmReturned("sleep") /\ pmOn /\ pmRes = 0

\* a render pass has returned and the flag is clear
FirstRenderDone == rPc = "finish" /\ ~first_render_since_poweron

\* the power manager has entered a further transition call, or an assertion
\* has stopped the system
FurtherRequest == pmPc = "lock" \/ halted

C12_NoCancelDeadlock ==
    ~(/\ pmPc = "sleep_wait"
      /\ mutexOwner = "pm"
      /\ lvgl_work.canceling
      /\ rPc = "clear"
      /\ sbPc["wq"] = "lock")

\* C13: when sleep_ctrl(false) returns 0 the render work is neither running
\* nor pending; whenever display_state is not Awake and the pm thread is not
\* between the state write and the end of the cancellation of a
\* sleep_ctrl(false), the render work is idle; and no render pass gives the
\* backlight a nonzero pulse width while display_state is not Awake, that is
\* after the sleep transition has commanded 0.
C13_CancelIsSynchronous ==
    /\ []((PmReturned("sleep") /\ ~pmOn /\ pmRes = 0) => WorkIdle)
    /\ []((display_state # "Awake"
           /\ pmPc \notin {"sleep_cancel", "sleep_wait"}) => WorkIdle)
    /\ [][(CommandsBacklight("wq") /\ pulse' # 0)
          => display_state = "Awake"]_vars

C13_Witness ==
    /\ PmReturned("sleep")
    /\ ~pmOn
    /\ pmRes = 0
    /\ WorkIdle
    /\ blkReady
    /\ pulse = 0
    /\ first_render_since_poweron

\* C14: when sleep_ctrl(false) has suspended the panel and the touch device
\* and forces the brightness to 0 (line 94 to line 99), no render pass is
\* running or scheduled to run: the cancellation has completed before.
C14_CancelBeforePowerCut ==
    (pmPc = "sleep_cancel" /\ panelPm = "suspended")
    => (~lvgl_work.pending /\ ~lvgl_work.running /\ "cancel" \in fx)

\* positions between k_mutex_lock and k_mutex_unlock
InTransition ==
    pmPc \in {"switch", "sleep_cancel", "sleep_wait", "wake_check",
              "wake_finish", "unlock"}

InSetBrightness(t) == sbPc[t] \in {"body", "unlock"}

\* positions of a transition after its write of display_state
MidTransition ==
    \/ pmPc \in {"sleep_cancel", "sleep_wait", "wake_check", "wake_finish"}
    \/ pmPc = "unlock" /\ "state" \in fx

\* C15: display_mutex is held by the pm thread from before the switch reads
\* display_state until after the last side effect of the transition, and by
\* a thread in the body of set_brightness; so at most one thread is in a
\* critical section, and no other thread's set_brightness reads
\* display_state (line 219) between the state write and the end of the side
\* effects of a transition.
C15_TransitionsAtomic ==
    /\ [](/\ InTransition => mutexOwner = "pm"
          /\ \A t \in Threads : InSetBrightness(t) => mutexOwner = t
          /\ \A t \in {"ui", "wq"} : ~(InTransition /\ InSetBrightness(t))
          /\ ~(InSetBrightness("ui") /\ InSetBrightness("wq")))
    /\ [][\A t \in {"ui", "wq"} :
            (sbPc[t] = "body" /\ sbPc'[t] # "body") => ~MidTransition]_vars

C15_Witness ==
    /\ MidTransition
    /\ pmPc = "wake_finish"
    /\ sbPc["ui"] = "lock"
    /\ mutexOwner = "pm"
    /\ display_state = "Awake"

\* the thread that takes the step
Stepper ==
    IF rPc' # rPc THEN "wq"
    ELSE IF pmPc' # pmPc THEN "pm"
    ELSE IF uiPc' # uiPc THEN "ui"
    ELSE CHOOSE t \in Threads : sbPc'[t] # sbPc[t]

\* C16: every write to display_state, last_brightness and
\* first_render_since_poweron is made by a thread that holds display_mutex
\* at the moment of the write.
C16_WritesUnderMutex ==
    [][(\/ display_state' # display_state
        \/ last_brightness' # last_brightness
        \/ first_render_since_poweron' # first_render_since_poweron)
       => mutexOwner = Stepper]_vars

SleepDone ==
    /\ pmOp = "sleep" /\ ~pmOn /\ pmPc = "unlock" /\ pmRes = 0
    /\ pmPre = DISPLAY_STATE_AWAKE

WakeDone ==
    /\ pmOp = "sleep" /\ pmOn /\ pmPc = "unlock" /\ pmRes = 0
    /\ pmPre = DISPLAY_STATE_SLEEPING

\* C18: with the backlight ready and first_render_since_poweron false, a
\* sleep_ctrl(false) from Awake leaves the backlight at 0 and last_brightness
\* at its value b in 1..100 (the request for 0 does not touch it), and the
\* sleep_ctrl(true) that follows leaves the backlight at last_brightness;
\* last_brightness itself is only ever changed by a request for a nonzero
\* percent, so the value restored is the b the sleep found.
C18_SleepWakeKeepsBrightness ==
    /\ []((SleepDone /\ blkReady)
            => (pulse = 0 /\ last_brightness \in 1..MaxPercent))
    /\ []((WakeDone /\ blkReady /\ ~first_render_since_poweron)
            => (pulse = PulseWidth(last_brightness) /\ pulse # 0))
    /\ [][(CommandsBacklight("pm") /\ sbArg["pm"] = 0)
            => (pulse' = 0 /\ last_brightness' = last_brightness)]_vars
    /\ [][(CommandsBacklight("pm") /\ sbArg["pm"] # 0)
            => (/\ sbArg["pm"] = last_brightness
                /\ pulse' = PulseWidth(last_brightness)
                /\ last_brightness' = last_brightness)]_vars
    /\ [][last_brightness' # last_brightness
            => \E t \in Threads :
                  /\ CommandsBacklight(t)
                  /\ sbArg[t] \in 1..MaxPercent
                  /\ last_brightness' = sbArg[t]]_vars

C18_Witness ==
    /\ WakeDone
    /\ lastOk = <<"sleep", FALSE>>
    /\ blkReady
    /\ ~first_render_since_poweron
    /\ last_brightness = MaxPercent
    /\ pulse = PulseWidth(MaxPercent)
    /\ sbPc["ui"] = "none"

\* C19: when the regulator device is not ready, display_state is Awake or
\* Sleeping in every reachable state (never PoweredOff),
\* first_render_since_poweron stays false, no call of pwr_ctrl returns 0 and
\* no call of sleep_ctrl returns -EIO.
C19_NoRegulatorNoPowerOff ==
    ~regReady =>
        /\ display_state \in {DISPLAY_STATE_AWAKE, DISPLAY_STATE_SLEEPING}
        /\ ~first_render_since_poweron
        /\ regEnabled
        /\ (PmReturned("pwr") => pmRes # 0)
        /\ (PmReturned("sleep") => pmRes # -EIO)

C19_Witness ==
    /\ ~regReady
    /\ PmReturned("pwr")
    /\ ~pmOn
    /\ pmPre = DISPLAY_STATE_SLEEPING
    /\ pmRes = -EALREADY
    /\ lastOk = <<"sleep", FALSE>>

InPwrCtrlSection == pmOp = "pwr" /\ pmPc \in {"switch", "unlock"}

\* C20 as stated: no render pass is running or pending while display_state
\* is PoweredOff or while a thread is inside the critical section of
\* pwr_ctrl.
C20_NoRenderInsidePwrCtrl ==
    (display_state = DISPLAY_STATE_POWERED_OFF \/ InPwrCtrlSection)
        => (WorkIdle /\ rPc = "idle")

\* C20: no render pass is running or pending while display_state is
\* PoweredOff, nor while a thread is inside the critical section of pwr_ctrl
\* with display_state other than Awake; first_render_since_poweron is set
\* only with the render work idle and is cleared only by a render pass, so a
\* clear never comes from a pass that started before the power-on.
C20_FlagSetAndClearDoNotRace ==
    /\ [](display_state = DISPLAY_STATE_POWERED_OFF
            => (WorkIdle /\ rPc = "idle"))
    /\ []((InPwrCtrlSection /\ display_state # DISPLAY_STATE_AWAKE)
            => (WorkIdle /\ rPc = "idle"))
    /\ [][(~first_render_since_poweron /\ first_render_since_poweron')
            => (/\ InPwrCtrlSection
                /\ display_state = DISPLAY_STATE_POWERED_OFF
                /\ WorkIdle /\ rPc = "idle"
                /\ lvgl_work' = lvgl_work /\ rPc' = rPc)]_vars
    /\ [][(first_render_since_poweron /\ ~first_render_since_poweron')
            => (rPc = "clear"
                /\ display_state # DISPLAY_STATE_POWERED_OFF)]_vars

C20_Witness ==
    /\ InPwrCtrlSection
    /\ pmPc = "unlock"
    /\ pmOn
    /\ pmRes = 0
    /\ first_render_since_poweron
    /\ display_state = DISPLAY_STATE_SLEEPING
    /\ WorkIdle
    /\ last_brightness = MaxPercent

====
